---- MODULE Spec2Model ----
(***************************************************************************)
(* The well-map viewer (frontend App component): a reducer-held well set,  *)
(* one fetch issued by a mount effect, and the marker list derived from    *)
(* the well set on every render.                                           *)
(***************************************************************************)
EXTENDS Integers, Sequences, FiniteSets, TLC

VARIABLES lifecycle, wells, markers, effectDeps, fetches, console,
          forcedRenders, invalidLatLngThrows, strayDispatches,
          prevWells, lastAction

\* lifecycle           "new" (not yet rendered), "mounted", "unmounted", or
\*                     "crashed" (a render threw; with no error boundary React
\*                     removes the whole tree)
\* wells               the reducer's state cell
\* markers             the marker list of the last committed render
\* effectDeps          the dependency list the effect last ran with (<<>>: never)
\* fetches             one promise chain per run of the effect
\* console             console.log / console.error calls, in order
\* forcedRenders       re-renders requested from outside the component
\* invalidLatLngThrows whether the map library rejects a NaN position by
\*                     throwing (its code is not part of the repository)
\* strayDispatches     dispatches made while no component was mounted
\* prevWells, lastAction   the reducer's last application (history)
vars == <<lifecycle, wells, markers, effectDeps, fetches, console,
          forcedRenders, invalidLatLngThrows, strayDispatches,
          prevWells, lastAction>>

(***************************************************************************)
(* Bounds of the model.                                                    *)
(***************************************************************************)
\* longest response array
MaxLen == 2
\* re-renders forced from outside the component (root re-render)
MaxRenders == 2
\* longest array used as reducer state or payload in SpecReducer
MaxReducerLen == 1

(***************************************************************************)
(* JavaScript values, tagged by type.  Strings are sequences of            *)
(* characters so that Number() can read them.                              *)
(***************************************************************************)
Undefined == [t |-> "undefined"]
JNull == [t |-> "null"]
JStr(s) == [t |-> "string", s |-> s]
JNum(n) == [t |-> "number", n |-> n]
JArr(items) == [t |-> "array", items |-> items]
JObj(props) == [t |-> "object", props |-> props]
JError(name) == [t |-> "error", name |-> name]

\* a JS number: NaN, or mantissa m and decimal exponent e (value m / 10^e)
NaN == [nan |-> TRUE]
Num(m, e) == [nan |-> FALSE, m |-> m, e |-> e]

Digits == <<"0", "1", "2", "3", "4", "5", "6", "7", "8", "9">>

IsDigit(c) == \E i \in 1..Len(Digits) : Digits[i] = c

DigitVal(c) == (CHOOSE i \in 1..Len(Digits) : Digits[i] = c) - 1

RECURSIVE DigitsToInt(_)
DigitsToInt(s) ==
  IF s = <<>> THEN 0
  ELSE 10 * DigitsToInt(SubSeq(s, 1, Len(s) - 1)) + DigitVal(s[Len(s)])

RECURSIVE Normalise(_, _)
Normalise(m, e) ==
  IF e > 0 /\ m % 10 = 0 THEN Normalise(m \div 10, e - 1) ELSE Num(m, e)

\* Number(string): [-]digits[.digits]; the empty string is 0; anything else NaN
StringToNumber(s) ==
  LET neg  == s # <<>> /\ s[1] = "-"
      body == IF neg THEN Tail(s) ELSE s
      dots == {i \in 1..Len(body) : body[i] = "."}
      ip   == IF dots = {} THEN body
              ELSE SubSeq(body, 1, (CHOOSE i \in dots : TRUE) - 1)
      fp   == IF dots = {} THEN <<>>
              ELSE SubSeq(body, (CHOOSE i \in dots : TRUE) + 1, Len(body))
      ok   == /\ Cardinality(dots) <= 1
              /\ \A i \in 1..Len(ip) : IsDigit(ip[i])
              /\ \A i \in 1..Len(fp) : IsDigit(fp[i])
              /\ Len(ip) + Len(fp) > 0
      mag  == DigitsToInt(ip \o fp)
  IN  IF s = <<>> THEN Num(0, 0)
      ELSE IF ~ok THEN NaN
      ELSE Normalise(IF neg THEN 0 - mag ELSE mag, Len(fp))

\* Number(v) as called on well.LATITUDE / well.LONGITUDE
Number(v) ==
  CASE v.t = "string" -> StringToNumber(v.s)
    [] v.t = "number" -> v.n
    [] v.t = "null"   -> Num(0, 0)
    [] OTHER          -> NaN

\* property read well.F: undefined when the value has no such property
Get(well, f) ==
  IF well.t = "object" /\ f \in DOMAIN well.props THEN well.props[f]
  ELSE Undefined

\* a ?? b
Nullish(a, b) == IF a.t \in {"undefined", "null"} THEN b ELSE a

\* the text React puts in the DOM for a child expression
ChildText(v) == IF v.t = "string" THEN v.s ELSE <<>>

Unknown == JStr(<<"U", "n", "k", "n", "o", "w", "n">>)

\* the eight popup lines, in source order: label and the field it reads
PopupFields ==
  << [label |-> "Well Name:",    field |-> "WELL_NAME"],
     [label |-> "Status:",       field |-> "WELL_STATUS"],
     [label |-> "Type:",         field |-> "WELL_TYPE"],
     [label |-> "API No:",       field |-> "API_NO"],
     [label |-> "Operator:",     field |-> "OPERATOR"],
     [label |-> "Closest City:", field |-> "CLOSEST_CITY"],
     [label |-> "Oil Produced:", field |-> "OIL_PRODUCED"],
     [label |-> "Gas Produced:", field |-> "GAS_PRODUCED"] >>

\* mutant: || in place of ??
PopupValueOr(well, f) ==
  LET a == Get(well, f)
  IN  IF a.t \in {"undefined", "null"} \/ (a.t = "string" /\ a.s = <<>>)
      THEN Unknown ELSE a

PopupValue(well, f) == Nullish(Get(well, f), Unknown)

Popup(well) ==
  [k \in 1..Len(PopupFields) |->
     [label |-> PopupFields[k].label,
      text  |-> ChildText(PopupValue(well, PopupFields[k].field))]]

MarkerOf(well, index) ==
  [key      |-> index,
   position |-> <<Number(Get(well, "LATITUDE")), Number(Get(well, "LONGITUDE"))>>,
   popup    |-> Popup(well)]

\* mutant: the list is built from the second record on
MarkerListSkipsFirst(items) ==
  [i \in 1..(Len(items) - 1) |-> MarkerOf(items[i + 1], i - 1)]

MarkerList(items) == [i \in 1..Len(items) |-> MarkerOf(items[i], i - 1)]

\* one evaluation of the component body's JSX (lines 49-94): it throws when
\* wells has no map method, when an entry is null, or (strict library) when a
\* marker position is NaN
Render(w, strict) ==
  IF w.t # "array" THEN [threw |-> TRUE, markers |-> <<>>]
  ELSE IF \E i \in 1..Len(w.items) : w.items[i].t \in {"null", "undefined"}
    THEN [threw |-> TRUE, markers |-> <<>>]
  ELSE LET ms == MarkerList(w.items) IN
    IF strict /\ \E i \in 1..Len(ms) : ms[i].position[1].nan \/ ms[i].position[2].nan
      THEN [threw |-> TRUE, markers |-> <<>>]
    ELSE [threw |-> FALSE, markers |-> ms]

(***************************************************************************)
(* The reducer (lines 27-34) under useImmerReducer.                        *)
(***************************************************************************)
SetWells(payload) == [type |-> "SET_WELLS", payload |-> payload]

\* mutant: SET_WELLS appends the payload to the held array
ReducerMerges(state, action) ==
  IF action.type # "SET_WELLS" THEN Undefined
  ELSE IF state.t = "array" /\ action.payload.t = "array"
    THEN JArr(state.items \o action.payload.items)
  ELSE action.payload

\* mutant: the default branch returns an empty array
ReducerDefaultResets(state, action) ==
  IF action.type = "SET_WELLS" THEN action.payload ELSE JArr(<<>>)

\* the recipe: the payload for SET_WELLS, undefined (break) otherwise
Reducer(state, action) ==
  IF action.type = "SET_WELLS" THEN action.payload ELSE Undefined

\* immer's produce: a recipe returning undefined keeps the (unmodified) draft
UseImmerReducer(state, action) ==
  LET result == Reducer(state, action)
  IN  IF result = Undefined THEN state ELSE result

(***************************************************************************)
(* Inputs: what the endpoint may answer.                                   *)
(***************************************************************************)
GoodLat == JStr(<<"4", "8", ".", "2", "1">>)
GoodLon == JStr(<<"-", "1", "0", "3", ".", "6">>)
BadLat == JStr(<<"n", "o", "t", "-", "a", "-", "n", "u", "m", "b", "e", "r">>)

OptFields == {PopupFields[k].field : k \in 1..Len(PopupFields)}

FieldValue(f) ==
  CASE f = "WELL_NAME"    -> JStr(<<"W", "e", "l", "l", " ", "A">>)
    [] f = "WELL_STATUS"  -> JStr(<<"A", "c", "t", "i", "v", "e">>)
    [] f = "WELL_TYPE"    -> JStr(<<"O", "G">>)
    [] f = "API_NO"       -> JStr(<<"3", "3", "-", "0", "5", "3">>)
    [] f = "OPERATOR"     -> JStr(<<"O", "p">>)
    [] f = "CLOSEST_CITY" -> JStr(<<"W", "i", "l", "l", "i", "s", "t", "o", "n">>)
    [] f = "OIL_PRODUCED" -> JStr(<<"1", "2", "0">>)
    [] f = "GAS_PRODUCED" -> JStr(<<"7", "5">>)
    [] f = "LATITUDE"     -> GoodLat
    [] f = "LONGITUDE"    -> GoodLon

WellWith(fields) == JObj([f \in fields |-> FieldValue(f)])

Override(well, f, v) ==
  JObj([g \in DOMAIN well.props \cup {f} |-> IF g = f THEN v ELSE well.props[g]])

Coords == {"LATITUDE", "LONGITUDE"}

\* records with no optional field, one (the first, the last), all of them, and
\* one whose status is the empty string
WellShaped ==
  { WellWith(Coords),
    WellWith(Coords \cup {"WELL_NAME"}),
    WellWith(Coords \cup {"GAS_PRODUCED"}),
    WellWith(Coords \cup OptFields),
    Override(WellWith(Coords), "WELL_STATUS", JStr(<<>>)) }

Malformed ==
  { JNull,
    Override(WellWith(Coords), "LATITUDE", BadLat),
    WellWith({"LONGITUDE", "WELL_NAME"}),
    Override(WellWith(Coords), "WELL_NAME", JNull) }

Entries == WellShaped \cup Malformed

ArraysUpTo(n) == {JArr(s) : s \in UNION {[1..k -> Entries] : k \in 0..n}}

NonArrays ==
  { JNull, JNum(Num(42, 0)), JStr(<<"o", "k">>),
    JObj([error |-> JStr(<<"d", "o", "w", "n">>)]) }

JsonValues == ArraysUpTo(MaxLen) \cup NonArrays

Statuses == {200, 404}

\* a response body: JSON text of a value, or text that is not JSON
Bodies ==
  {[json |-> TRUE, value |-> v] : v \in JsonValues}
    \cup {[json |-> FALSE, value |-> Undefined]}

IsWellShaped(e) ==
  /\ e.t = "object"
  /\ Coords \subseteq DOMAIN e.props
  /\ DOMAIN e.props \subseteq Coords \cup OptFields
  /\ \A f \in DOMAIN e.props : e.props[f].t = "string"
  /\ \A f \in Coords : ~Number(e.props[f]).nan

IsWellArray(v) ==
  v.t = "array" /\ \A i \in 1..Len(v.items) : IsWellShaped(v.items[i])

(***************************************************************************)
(* The component.                                                          *)
(***************************************************************************)
LogEntry(level, msg, arg) == [level |-> level, msg |-> msg, arg |-> arg]

NewFetch == [pc |-> "pending", response |-> Undefined, settled |-> Undefined]

\* the identity of the dispatch function useImmerReducer returns: stable
DispatchRef == "dispatch"

\* mutant: no dependency array, the effect runs after every render
EffectRunsEveryRender(prevDeps, deps) == TRUE

\* useEffect(..., [dispatch]): run on first commit, then only when a dep changed
EffectShouldRun(prevDeps, deps) == prevDeps = <<>> \/ prevDeps # deps

\* mutant: a cleanup that aborts whatever is still in flight
EffectCleanupAborts(fs) ==
  [i \in DOMAIN fs |->
     IF fs[i].pc = "done" THEN fs[i] ELSE [fs[i] EXCEPT !.pc = "aborted"]]

\* the effect returns no cleanup function: unmount leaves the fetch running
EffectCleanup(fs) == fs

\* mutant: text that is not JSON resolves with an empty array
ResponseJsonLenient(response) ==
  [pc |-> "data", response |-> response,
   settled |-> IF response.body.json THEN response.body.value ELSE JArr(<<>>)]

\* response.json(): rejects on text that is not JSON; the status is not read
ResponseJson(response) ==
  IF response.body.json
  THEN [pc |-> "data", response |-> response, settled |-> response.body.value]
  ELSE [pc |-> "rejected", response |-> response, settled |-> JError("SyntaxError")]

\* render w, commit, and run the effect when due
RenderAndCommit(w, con, fs) ==
  LET r    == Render(w, invalidLatLngThrows)
      con1 == Append(con, LogEntry("log", "App component rendered", Undefined))
      deps == <<DispatchRef>>
  IN  IF r.threw
      THEN /\ lifecycle' = "crashed"
           /\ markers' = <<>>
           /\ effectDeps' = effectDeps
           /\ fetches' = fs
           /\ console' = con1
      ELSE /\ lifecycle' = "mounted"
           /\ markers' = r.markers
           /\ effectDeps' = deps
           /\ IF EffectShouldRun(effectDeps, deps)
              THEN /\ fetches' = Append(fs, NewFetch)
                   /\ console' = Append(con1,
                        LogEntry("log", "Fetching wells data...", Undefined))
              ELSE /\ fetches' = fs
                   /\ console' = con1

\* mutant: the reducer is seeded with a record
InitialWellsSeeded == JArr(<<WellWith(Coords)>>)

\* useImmerReducer(..., []): the initial state
InitialWells == JArr(<<>>)

NoAction == [type |-> "@@INIT", payload |-> Undefined]

Init ==
  /\ lifecycle = "new"
  /\ wells = InitialWells
  /\ markers = <<>>
  /\ effectDeps = <<>>
  /\ fetches = <<>>
  /\ console = <<>>
  /\ forcedRenders = 0
  /\ invalidLatLngThrows \in BOOLEAN
  /\ strayDispatches = 0
  /\ prevWells = InitialWells
  /\ lastAction = NoAction

Mount ==
  /\ lifecycle = "new"
  /\ RenderAndCommit(wells, console, fetches)
  /\ UNCHANGED <<wells, forcedRenders, invalidLatLngThrows, strayDispatches,
                 prevWells, lastAction>>

ForceRender ==
  /\ lifecycle = "mounted"
  /\ forcedRenders < MaxRenders
  /\ forcedRenders' = forcedRenders + 1
  /\ RenderAndCommit(wells, console, fetches)
  /\ UNCHANGED <<wells, invalidLatLngThrows, strayDispatches, prevWells, lastAction>>

Unmount ==
  /\ lifecycle = "mounted"
  /\ lifecycle' = "unmounted"
  /\ markers' = <<>>
  /\ fetches' = EffectCleanup(fetches)
  /\ UNCHANGED <<wells, effectDeps, console, forcedRenders, invalidLatLngThrows,
                 strayDispatches, prevWells, lastAction>>

FetchNetworkError(i) ==
  /\ fetches[i].pc = "pending"
  /\ fetches' = [fetches EXCEPT ![i] =
       [pc |-> "rejected", response |-> Undefined, settled |-> JError("TypeError")]]
  /\ UNCHANGED <<lifecycle, wells, markers, effectDeps, console, forcedRenders,
                 invalidLatLngThrows, strayDispatches, prevWells, lastAction>>

FetchRespond(i, status, body) ==
  /\ fetches[i].pc = "pending"
  /\ fetches' = [fetches EXCEPT ![i] =
       [pc |-> "response",
        response |-> [t |-> "response", status |-> status, body |-> body],
        settled |-> Undefined]]
  /\ UNCHANGED <<lifecycle, wells, markers, effectDeps, console, forcedRenders,
                 invalidLatLngThrows, strayDispatches, prevWells, lastAction>>

ThenJson(i) ==
  /\ fetches[i].pc = "response"
  /\ fetches' = [fetches EXCEPT ![i] = ResponseJson(fetches[i].response)]
  /\ UNCHANGED <<lifecycle, wells, markers, effectDeps, console, forcedRenders,
                 invalidLatLngThrows, strayDispatches, prevWells, lastAction>>

\* .then((data) => { console.log(...); dispatch({type: "SET_WELLS", payload: data}) })
ThenData(i) ==
  /\ fetches[i].pc = "data"
  /\ LET data   == fetches[i].settled
         action == SetWells(data)
         con    == Append(console, LogEntry("log", "Wells data received:", data))
         fs     == [fetches EXCEPT ![i].pc = "done"]
     IN  IF lifecycle = "mounted"
         THEN /\ wells' = UseImmerReducer(wells, action)
              /\ prevWells' = wells
              /\ lastAction' = action
              /\ RenderAndCommit(wells', con, fs)
              /\ UNCHANGED strayDispatches
         ELSE /\ strayDispatches' = strayDispatches + 1
              /\ fetches' = fs
              /\ console' = con
              /\ UNCHANGED <<lifecycle, wells, markers, effectDeps, prevWells, lastAction>>
  /\ UNCHANGED <<forcedRenders, invalidLatLngThrows>>

\* .catch((error) => console.error("Error fetching wells data:", error))
CatchError(i) ==
  /\ fetches[i].pc = "rejected"
  /\ console' = Append(console,
       LogEntry("error", "Error fetching wells data:", fetches[i].settled))
  /\ fetches' = [fetches EXCEPT ![i].pc = "done"]
  /\ UNCHANGED <<lifecycle, wells, markers, effectDeps, forcedRenders,
                 invalidLatLngThrows, strayDispatches, prevWells, lastAction>>

Next ==
  \/ Mount
  \/ ForceRender
  \/ Unmount
  \/ \E i \in DOMAIN fetches : FetchNetworkError(i)
  \/ \E i \in DOMAIN fetches : \E status \in Statuses : \E body \in Bodies :
       FetchRespond(i, status, body)
  \/ \E i \in DOMAIN fetches : ThenJson(i)
  \/ \E i \in DOMAIN fetches : ThenData(i)
  \/ \E i \in DOMAIN fetches : CatchError(i)

Spec == Init /\ [][Next]_vars

(***************************************************************************)
(* The reducer alone, applied to every state it can produce and to actions *)
(* of every type.                                                          *)
(***************************************************************************)
ReducerValues == ArraysUpTo(MaxReducerLen) \cup NonArrays

ReducerActions ==
  {SetWells(p) : p \in ReducerValues}
    \cup {[type |-> "RESET", payload |-> Undefined],
          [type |-> "ADD_WELL", payload |-> JArr(<<WellWith(Coords)>>)]}

ApplyReducer(action) ==
  /\ wells' = UseImmerReducer(wells, action)
  /\ prevWells' = wells
  /\ lastAction' = action
  /\ UNCHANGED <<lifecycle, markers, effectDeps, fetches, console, forcedRenders,
                 invalidLatLngThrows, strayDispatches>>

NextReducer == \E action \in ReducerActions : ApplyReducer(action)

SpecReducer == Init /\ [][NextReducer]_vars

(***************************************************************************)
(* Properties.                                                             *)
(***************************************************************************)
Empty == JArr(<<>>)

Failed(f) == f.settled.t = "error"

Succeeded(f) == f.pc \in {"data", "done"} /\ ~Failed(f)

ErrorsLogged == {k \in DOMAIN console : console[k].level = "error"}

NoDispatch == lastAction = NoAction /\ strayDispatches = 0

InFlight == {i \in DOMAIN fetches : fetches[i].pc # "done"}

\* C1: once the load of a response whose body is an array of N well-shaped
\* records has completed, the mounted map holds exactly N markers and the
\* i-th marker is the one built from the i-th record of the response.
C1_MarkersFollowResponse ==
  \A i \in DOMAIN fetches :
    LET f == fetches[i] IN
    (f.pc = "done" /\ Succeeded(f) /\ IsWellArray(f.settled))
      => /\ lifecycle \in {"mounted", "unmounted"}
         /\ lifecycle = "mounted" =>
              /\ Len(markers) = Len(f.settled.items)
              /\ \A k \in 1..Len(f.settled.items) :
                   markers[k] = MarkerOf(f.settled.items[k], k - 1)

C1_Witness ==
  /\ lifecycle = "mounted"
  /\ Len(fetches) = 1
  /\ fetches[1].pc = "done"
  /\ Succeeded(fetches[1])
  /\ IsWellArray(fetches[1].settled)
  /\ Len(fetches[1].settled.items) = 2
  /\ fetches[1].settled.items[1] # fetches[1].settled.items[2]
  /\ Len(markers) = 2

\* C2: a fetch that fails with a network error or on a body that is not JSON
\* is caught: no SET_WELLS is dispatched, the well set stays the empty
\* sequence, no marker is rendered, and once the catch handler has run the
\* error is in the log.
C2_FailureIsCaughtAndLogged ==
  \A i \in DOMAIN fetches :
    LET f == fetches[i] IN
    (f.pc \in {"rejected", "done"} /\ (f.response = Undefined \/ ~f.response.body.json))
      => /\ Failed(f)
         /\ NoDispatch
         /\ wells = Empty
         /\ markers = <<>>
         /\ lifecycle # "crashed"
         /\ f.pc = "done" => \E k \in ErrorsLogged : console[k].arg = f.settled

C2_Witness ==
  /\ lifecycle = "mounted"
  /\ Len(fetches) = 1
  /\ fetches[1].pc = "done"
  /\ fetches[1].response # Undefined
  /\ ~fetches[1].response.body.json
  /\ Cardinality(ErrorsLogged) = 1

\* C3: every response whose status is not 200 ends as a failure: an error is
\* logged, nothing is dispatched and the well set is unchanged.
C3_NonOkStatusIsFailure ==
  \A i \in DOMAIN fetches :
    LET f == fetches[i] IN
    (f.pc = "done" /\ f.response # Undefined /\ f.response.status # 200)
      => /\ ErrorsLogged # {}
         /\ NoDispatch
         /\ wells = Empty

C4_Order ==
  << <<"Well Name:", "WELL_NAME">>, <<"Status:", "WELL_STATUS">>,
     <<"Type:", "WELL_TYPE">>, <<"API No:", "API_NO">>,
     <<"Operator:", "OPERATOR">>, <<"Closest City:", "CLOSEST_CITY">>,
     <<"Oil Produced:", "OIL_PRODUCED">>, <<"Gas Produced:", "GAS_PRODUCED">> >>

C4_IsRecord(e) ==
  /\ e.t = "object"
  /\ \A f \in DOMAIN e.props \cap OptFields : e.props[f].t = "string"

\* C4: for every rendered record whose optional fields are strings, the popup
\* has the eight lines in the fixed order, and each line shows the field's
\* value when the record has the field and "Unknown" when it has not.
C4_PopupFallback ==
  (lifecycle = "mounted" /\ wells.t = "array")
    => /\ Len(markers) = Len(wells.items)
       /\ \A i \in 1..Len(wells.items) :
            C4_IsRecord(wells.items[i])
              => /\ Len(markers[i].popup) = 8
                 /\ \A k \in 1..8 :
                      LET line == markers[i].popup[k]
                          f    == C4_Order[k][2]
                          rec  == wells.items[i].props
                      IN  /\ line.label = C4_Order[k][1]
                          /\ line.text =
                               IF f \in DOMAIN rec THEN rec[f].s
                               ELSE <<"U", "n", "k", "n", "o", "w", "n">>

C4_Witness ==
  /\ lifecycle = "mounted"
  /\ wells.t = "array"
  /\ Len(wells.items) = 1
  /\ C4_IsRecord(wells.items[1])
  /\ DOMAIN wells.items[1].props \cap OptFields = {"WELL_NAME"}
  /\ markers[1].popup[1].text = <<"W", "e", "l", "l", " ", "A">>
  /\ markers[1].popup[2].text = <<"U", "n", "k", "n", "o", "w", "n">>

\* C5: whatever the data load produces, the rendered tree never crashes.
C5_NeverCrashes == lifecycle # "crashed"

\* C6: during one mount exactly one fetch is issued, whatever the number of
\* re-renders and whatever the fetch's outcome, and never two are in flight.
C6_OneFetchPerMount ==
  /\ lifecycle = "new" => Len(fetches) = 0
  /\ lifecycle # "new" => Len(fetches) = 1
  /\ Cardinality(InFlight) <= 1

C6_Witness ==
  /\ lifecycle = "mounted"
  /\ forcedRenders >= 2
  /\ Len(fetches) = 1
  /\ fetches[1].pc = "done"
  /\ Failed(fetches[1])

\* C7: the state starts as the empty sequence, and SET_WELLS(payload) makes
\* the state exactly the payload, whatever the previous state was.
C7_SetWellsReplaces ==
  /\ lastAction = NoAction => wells = Empty
  /\ lastAction.type = "SET_WELLS" => wells = lastAction.payload

C7_Witness ==
  /\ lastAction.type = "SET_WELLS"
  /\ prevWells.t = "array"
  /\ Len(prevWells.items) = 1
  /\ wells.t = "array"
  /\ Len(wells.items) = 1
  /\ wells # prevWells

\* C8: an action of any type other than SET_WELLS leaves the well set as it was.
C8_OtherActionsAreNoOps ==
  lastAction.type \notin {"SET_WELLS", "@@INIT"} => wells = prevWells

C8_Witness ==
  /\ lastAction.type = "RESET"
  /\ wells.t = "array"
  /\ Len(wells.items) = 1

Unresolved ==
  \A i \in DOMAIN fetches : fetches[i].pc \in {"pending", "response", "data", "rejected"}

\* C9: until the fetch resolves the well set is empty and the mounted map
\* has no marker; the well set is written only by the resolution callback of
\* a successful fetch, is then exactly the fetched data, and is written at
\* most once; a fetch that resolved with data while the component was
\* mounted has written it.
C9_WrittenOnceByResolution ==
  /\ [](Unresolved => (wells = Empty /\ markers = <<>>))
  /\ []((lastAction # NoAction) =>
          \E i \in DOMAIN fetches :
            fetches[i].pc = "done" /\ Succeeded(fetches[i])
              /\ lastAction = SetWells(fetches[i].settled)
              /\ wells = fetches[i].settled)
  /\ [](\A i \in DOMAIN fetches :
          (fetches[i].pc = "done" /\ Succeeded(fetches[i]) /\ strayDispatches = 0)
            => lastAction # NoAction)
  /\ [][(wells' # wells \/ lastAction' # lastAction) =>
          /\ lastAction = NoAction
          /\ lifecycle = "mounted"
          /\ \E i \in DOMAIN fetches :
               fetches[i].pc = "data" /\ fetches'[i].pc = "done"]_vars

C9_Witness ==
  /\ lastAction # NoAction
  /\ wells.t = "array"
  /\ Len(wells.items) = 2
  /\ wells = fetches[1].settled
  /\ Len(markers) = 2
  /\ lifecycle = "mounted"

\* C10: unmounting does not cancel the fetch: the unmount step leaves every
\* fetch as it was, so the resolution callback can still run and dispatch
\* to the disposed component; such a late dispatch neither crashes the
\* program nor changes the well set or the (empty) rendered output.
C10_NoCancelStrayDispatchHarmless ==
  /\ [][(lifecycle = "mounted" /\ lifecycle' = "unmounted") => fetches' = fetches]_vars
  /\ [](strayDispatches > 0 =>
          /\ lifecycle = "unmounted"
          /\ wells = Empty
          /\ markers = <<>>
          /\ lastAction = NoAction)

C10_Witness ==
  /\ strayDispatches = 1
  /\ lifecycle = "unmounted"
  /\ Len(fetches) = 1
  /\ fetches[1].pc = "done"
  /\ Succeeded(fetches[1])

====
